---- MODULE Spec2Model ----
(***************************************************************************)
(* Model of notebooks/exports/01-data-parsing.py: the segmenter            *)
(* clean_xml_docs, the extraction loop over clean_docs with its compiled   *)
(* regular expressions, the DataFrame built from the nine per-field lists, *)
(* and the hand-written JSON emitter with the reload that verifies it.     *)
(*                                                                         *)
(* Text.  A Python str is modelled as a sequence of lexemes (TLA+ strings).*)
(* Every character that a pattern, a character class, an escape rule or a  *)
(* str method of the program tells apart is a lexeme of its own:           *)
(*   <  >  /  =  "  \  &  ;  #  ,  .  [  ]  {  }  :  _  '  space, newline, *)
(*   every upper-case letter and every digit.                              *)
(* A maximal run of lower-case letters and inner hyphens (an element or    *)
(* attribute name, a word of running text) is one lexeme and is never      *)
(* split, except after a prefix at which a pattern's literal ends and a    *)
(* class follows: "inventors" is "inventor","s" (<inventor[^>]*>) and      *)
(* "pre" is "p","re" (<p[^>]*>).  So every str has exactly one             *)
(* representation, and equality of sequences is equality of strs.          *)
(***************************************************************************)
EXTENDS Integers, Sequences, FiniteSets, TLC

(***************************************************************************)
(* Character classes, as sets of lexemes.                                  *)
(***************************************************************************)
Upper ==
    {"A", "B", "C", "D", "E", "F", "G", "H", "I", "J", "K", "L", "M",
     "N", "O", "P", "Q", "R", "S", "T", "U", "V", "W", "X", "Y", "Z"}

Digit == {"0", "1", "2", "3", "4", "5", "6", "7", "8", "9"}

\* The hyphen-free lower-case lexemes that occur in the modelled texts.
LowerWords ==
    {"kind", "claims", "inventor", "addressbook", "abstract",
     "category", "cited", "by", "examiner", "applicant", "p", "id", "file",
     "amp", "lt", "gt", "quot", "x", "xe", "c", "d", "a", "b", "n", "u",
     "s", "re", "xml", "version", "encoding", "num", "sequence", "nbsp"}

\* \w : [a-zA-Z0-9_]
Word == Upper \cup Digit \cup LowerWords \cup {"_"}

\* \s, and the characters str.strip() removes
Space == {" ", "\n", "\r", "\t"}

(***************************************************************************)
(* str methods                                                             *)
(***************************************************************************)
\* s[p:p+len(v)] == v   (positions are 1-based)
HasAt(s, p, v) ==
    /\ p >= 1
    /\ p + Len(v) - 1 <= Len(s)
    /\ \A j \in 1..Len(v) : s[p + j - 1] = v[j]

\* s[p-1:q-1] in Python terms: the lexemes at positions p .. q-1
Slice(s, p, q) == SubSeq(s, p, q - 1)

\* the least element of a non-empty set of integers
SetMin(S) == CHOOSE x \in S : \A y \in S : x <= y

\* the greatest element of a non-empty set of integers
SetMax(S) == CHOOSE x \in S : \A y \in S : y <= x

\* s.find(v, p-1) + 1: the first position from p on where v occurs, or 0
StrFind(s, v, p) ==
    LET at == {q \in p..Len(s) : HasAt(s, q, v)}
    IN  IF at = {} THEN 0 ELSE SetMin(at)

RECURSIVE StrReplaceFrom(_, _, _, _)
\* str.replace from position p on: leftmost, non-overlapping occurrences
StrReplaceFrom(s, old, new, p) ==
    LET q == StrFind(s, old, p)
    IN  IF q = 0 THEN Slice(s, p, Len(s) + 1)
        ELSE Slice(s, p, q) \o new \o StrReplaceFrom(s, old, new, q + Len(old))

\* s.replace(old, new), old non-empty
StrReplace(s, old, new) == StrReplaceFrom(s, old, new, 1)

RECURSIVE StrSplitFrom(_, _, _)
\* the pieces of s from position p on
StrSplitFrom(s, sep, p) ==
    LET q == StrFind(s, sep, p)
    IN  IF q = 0 THEN <<Slice(s, p, Len(s) + 1)>>
        ELSE <<Slice(s, p, q)>> \o StrSplitFrom(s, sep, q + Len(sep))

\* s.split(sep), sep non-empty: always at least one piece
StrSplit(s, sep) == StrSplitFrom(s, sep, 1)

\* len(s.strip()) > 0 : some lexeme of s is not whitespace
StripNonEmpty(s) == \E j \in 1..Len(s) : s[j] \notin Space

RECURSIVE StrJoin(_, _)
\* sep.join(list)
StrJoin(sep, list) ==
    IF list = <<>> THEN <<>>
    ELSE IF Len(list) = 1 THEN list[1]
         ELSE list[1] \o sep \o StrJoin(sep, Tail(list))

(***************************************************************************)
(* Regular expressions (module re).  A pattern is a sequence of elements:  *)
(*   Lit(v)            the literal v                                       *)
(*   Rep(S,neg,a,b,g)  a repetition of the class S (complemented when neg) *)
(*                     of a to b characters (b = -1: unbounded), greedy    *)
(*                     when g and lazy otherwise                           *)
(*   Open(n), Close(n) the parentheses of capture group n                  *)
(* MatchAt is the backtracking matcher: alternatives are tried in re's     *)
(* order (greedy: longest first; lazy: shortest first) and the first one   *)
(* that lets the rest of the pattern match is the match.                   *)
(***************************************************************************)
Lit(v) == [t |-> "lit", v |-> v, set |-> {}, neg |-> FALSE,
           min |-> 0, max |-> 0, greedy |-> TRUE, g |-> 0]

Rep(S, neg, a, b, gr) == [t |-> "rep", v |-> <<>>, set |-> S, neg |-> neg,
                          min |-> a, max |-> b, greedy |-> gr, g |-> 0]

Open(n) == [t |-> "open", v |-> <<>>, set |-> {}, neg |-> FALSE,
            min |-> 0, max |-> 0, greedy |-> TRUE, g |-> n]

Close(n) == [t |-> "close", v |-> <<>>, set |-> {}, neg |-> FALSE,
             min |-> 0, max |-> 0, greedy |-> TRUE, g |-> n]

\* .*? under re.DOTALL: any characters, as few as possible
LazyAny == Rep({}, TRUE, 0, -1, FALSE)

NoCaps == <<<<0, 0>>, <<0, 0>>>>

NoMatch == [ok |-> FALSE, start |-> 0, end |-> 0, caps |-> NoCaps]

InClass(x, e) == (x \in e.set) # e.neg

RECURSIVE Width(_, _, _)
\* the number of characters of the lexemes at positions p .. q-1
Width(s, p, q) == IF p >= q THEN 0 ELSE Len(s[p]) + Width(s, p + 1, q)

\* the positions at which a repetition that starts at p may end: the
\* lexemes p .. q-1 are in the class and count e.min to e.max characters
\* (a lexeme has at least one character, which bounds q when e.max does)
RepEnds(s, p, e) ==
    LET hi   == IF e.max = -1 \/ p + e.max > Len(s) + 1
                THEN Len(s) + 1 ELSE p + e.max
        stop == SetMin({j \in p..Len(s) : ~InClass(s[j], e)} \cup {Len(s) + 1})
    IN  {q \in p..(IF stop < hi THEN stop ELSE hi) :
            IF e.max = -1 /\ e.min <= 1
            THEN q - p >= e.min
            ELSE /\ Width(s, p, q) >= e.min
                 /\ (e.max = -1 \/ Width(s, p, q) <= e.max)}

RECURSIVE MatchAt(_, _, _, _, _)
\* the repetition re[k] ends at the first of ends, in re's order (greedy:
\* longest first; lazy: shortest first), from which the rest matches
TryEnds(re, k, s, ends, caps) ==
    LET good == {q \in ends : MatchAt(re, k + 1, s, q, caps).ok}
    IN  IF good = {} THEN NoMatch
        ELSE MatchAt(re, k + 1, s,
                     IF re[k].greedy THEN SetMax(good) ELSE SetMin(good),
                     caps)

\* match the elements k.. of re against s from position p on
MatchAt(re, k, s, p, caps) ==
    IF k > Len(re) THEN [ok |-> TRUE, start |-> 0, end |-> p, caps |-> caps]
    ELSE CASE re[k].t = "lit" ->
                IF HasAt(s, p, re[k].v)
                THEN MatchAt(re, k + 1, s, p + Len(re[k].v), caps)
                ELSE NoMatch
           [] re[k].t = "open" ->
                MatchAt(re, k + 1, s, p, [caps EXCEPT ![re[k].g][1] = p])
           [] re[k].t = "close" ->
                MatchAt(re, k + 1, s, p, [caps EXCEPT ![re[k].g][2] = p])
           [] OTHER -> TryEnds(re, k, s, RepEnds(s, p, re[k]), caps)

\* pattern.search(s, pos): the leftmost match starting at p or later
SearchFrom(re, s, p) ==
    LET starts == {b \in p..(Len(s) + 1) : MatchAt(re, 1, s, b, NoCaps).ok}
    IN  IF starts = {} THEN NoMatch
        ELSE [MatchAt(re, 1, s, SetMin(starts), NoCaps)
                EXCEPT !.start = SetMin(starts)]

\* pattern.search(s): a match object, or None (ok = FALSE)
Search(re, s) == SearchFrom(re, s, 1)

\* match.group(): the whole match
Group0(s, m) == Slice(s, m.start, m.end)

\* match.group(n)
Group(s, m, n) == Slice(s, m.caps[n][1], m.caps[n][2])

RECURSIVE FindAllFrom(_, _, _)
\* the successive non-overlapping matches of re in s from p on
FindAllFrom(re, s, p) ==
    LET m == SearchFrom(re, s, p)
    IN  IF ~m.ok THEN <<>>
        ELSE <<m>> \o FindAllFrom(re, s, IF m.end > m.start THEN m.end
                                          ELSE m.end + 1)

\* pattern.finditer(s), as a list of match objects
FindAll(re, s) == FindAllFrom(re, s, 1)

(***************************************************************************)
(* re.sub(pattern, '', s) for a pattern that is an alternation of the      *)
(* patterns alts: at the leftmost position where an alternative matches,   *)
(* the first alternative that matches there is removed.                    *)
(***************************************************************************)
RECURSIVE FirstAlt(_, _, _, _)
\* the match of the first alternative k.. that matches at p
FirstAlt(alts, k, s, p) ==
    IF k > Len(alts) THEN NoMatch
    ELSE LET r == MatchAt(alts[k], 1, s, p, NoCaps)
         IN  IF r.ok THEN r ELSE FirstAlt(alts, k + 1, s, p)

RECURSIVE SubDeleteFrom(_, _, _)
SubDeleteFrom(alts, s, p) ==
    LET at == {q \in p..Len(s) :
                  FirstAlt(alts, 1, s, q).ok /\ FirstAlt(alts, 1, s, q).end > q}
    IN  IF at = {} THEN Slice(s, p, Len(s) + 1)
        ELSE Slice(s, p, SetMin(at))
                 \o SubDeleteFrom(alts, s, FirstAlt(alts, 1, s, SetMin(at)).end)

SubDelete(alts, s) == SubDeleteFrom(alts, s, 1)

(***************************************************************************)
(* int() and str() of a non-negative integer                               *)
(***************************************************************************)
DigitValue(c) ==
    CASE c = "0" -> 0 [] c = "1" -> 1 [] c = "2" -> 2 [] c = "3" -> 3
      [] c = "4" -> 4 [] c = "5" -> 5 [] c = "6" -> 6 [] c = "7" -> 7
      [] c = "8" -> 8 [] c = "9" -> 9

DigitChar(n) ==
    CASE n = 0 -> "0" [] n = 1 -> "1" [] n = 2 -> "2" [] n = 3 -> "3"
      [] n = 4 -> "4" [] n = 5 -> "5" [] n = 6 -> "6" [] n = 7 -> "7"
      [] n = 8 -> "8" [] n = 9 -> "9"

RECURSIVE StrToIntAcc(_, _)
StrToIntAcc(s, acc) ==
    IF s = <<>> THEN acc
    ELSE StrToIntAcc(Tail(s), 10 * acc + DigitValue(Head(s)))

\* int(s) for a str of decimal digits
StrToInt(s) == StrToIntAcc(s, 0)

RECURSIVE IntToStr(_)
\* str(n), n >= 0
IntToStr(n) ==
    IF n < 10 THEN <<DigitChar(n)>>
    ELSE IntToStr(n \div 10) \o <<DigitChar(n % 10)>>

(***************************************************************************)
(* The compiled patterns                                                   *)
(***************************************************************************)
\* r'<us-patent-grant.*?file="([A-Z]{2}(?:[A-Z]{1,2})?\d+).*?\.XML".*?>'
\* ( (?:[A-Z]{1,2})? greedy tries two letters, one, none: [A-Z]{0,2} )
GRANT_ID_PATTERN ==
    <<Lit(<<"<", "us-patent-grant">>), LazyAny,
      Lit(<<"file", "=", "\"">>),
      Open(1), Rep(Upper, FALSE, 2, 2, TRUE), Rep(Upper, FALSE, 0, 2, TRUE),
      Rep(Digit, FALSE, 1, -1, TRUE), Close(1),
      LazyAny, Lit(<<".", "X", "M", "L", "\"">>), LazyAny, Lit(<<">">>)>>

\* r'<publication-reference>.*?<kind>(\w{1,2})</kind>.*?</publication-reference>'
KIND_PATTERN ==
    <<Lit(<<"<", "publication-reference", ">">>), LazyAny,
      Lit(<<"<", "kind", ">">>),
      Open(1), Rep(Word, FALSE, 1, 2, TRUE), Close(1),
      Lit(<<"<", "/", "kind", ">">>), LazyAny,
      Lit(<<"<", "/", "publication-reference", ">">>)>>

\* r'<invention-title id=\".*?\">(.*?)</invention-title>'
PATENT_TITLE_PATTERN ==
    <<Lit(<<"<", "invention-title", " ", "id", "=", "\"">>), LazyAny,
      Lit(<<"\"", ">">>), Open(1), LazyAny, Close(1),
      Lit(<<"<", "/", "invention-title", ">">>)>>

\* r'<number-of-claims>(\d+)</number-of-claims>'
NUMBER_OF_CLAIMS_PATTERN ==
    <<Lit(<<"<", "number-of-claims", ">">>),
      Open(1), Rep(Digit, FALSE, 1, -1, TRUE), Close(1),
      Lit(<<"<", "/", "number-of-claims", ">">>)>>

\* r'<category>cited by examiner<\/category>'
CITATIONS_EXAMINER_COUNT_PATTERN ==
    <<Lit(<<"<", "category", ">", "cited", " ", "by", " ", "examiner",
            "<", "/", "category", ">">>)>>

\* r'<category>cited by applicant<\/category>'
CITATIONS_APPLICANT_COUNT_PATTERN ==
    <<Lit(<<"<", "category", ">", "cited", " ", "by", " ", "applicant",
            "<", "/", "category", ">">>)>>

\* r'<inventors>.*?</inventors>'
INVENTORS_TAG_PATTERN ==
    <<Lit(<<"<", "inventor", "s", ">">>), LazyAny,
      Lit(<<"<", "/", "inventor", "s", ">">>)>>

\* r'<inventor[^>]*>\s*<addressbook>\s*<last-name>([^<]*)<\/last-name>\s*
\*   <first-name>([^<]*)<\/first-name>'
INVENTORS_PATTERN ==
    <<Lit(<<"<", "inventor">>), Rep({">"}, TRUE, 0, -1, TRUE), Lit(<<">">>),
      Rep(Space, FALSE, 0, -1, TRUE), Lit(<<"<", "addressbook", ">">>),
      Rep(Space, FALSE, 0, -1, TRUE), Lit(<<"<", "last-name", ">">>),
      Open(1), Rep({"<"}, TRUE, 0, -1, TRUE), Close(1),
      Lit(<<"<", "/", "last-name", ">">>),
      Rep(Space, FALSE, 0, -1, TRUE), Lit(<<"<", "first-name", ">">>),
      Open(2), Rep({"<"}, TRUE, 0, -1, TRUE), Close(2),
      Lit(<<"<", "/", "first-name", ">">>)>>

\* r'<claims id="claims">.*?<\/claims>'
CLAIMS_TAG_PATTERN ==
    <<Lit(<<"<", "claims", " ", "id", "=", "\"", "claims", "\"", ">">>),
      LazyAny, Lit(<<"<", "/", "claims", ">">>)>>

\* r'<claim-text>(.*?)<\/claim-text>'
CLAIMS_TEXT_PATTERN ==
    <<Lit(<<"<", "claim-text", ">">>), Open(1), LazyAny, Close(1),
      Lit(<<"<", "/", "claim-text", ">">>)>>

\* r'<abstract[^>]*>\s*<p[^>]*>(.*?)<\/p>\s*<\/abstract>'
ABSTRACT_PATTERN ==
    <<Lit(<<"<", "abstract">>), Rep({">"}, TRUE, 0, -1, TRUE), Lit(<<">">>),
      Rep(Space, FALSE, 0, -1, TRUE),
      Lit(<<"<", "p">>), Rep({">"}, TRUE, 0, -1, TRUE), Lit(<<">">>),
      Open(1), LazyAny, Close(1), Lit(<<"<", "/", "p", ">">>),
      Rep(Space, FALSE, 0, -1, TRUE), Lit(<<"<", "/", "abstract", ">">>)>>

\* r'<[^>]*>|&\w+;' : the two alternatives, in order
CLEANUP_PATTERN ==
    << <<Lit(<<"<">>), Rep({">"}, TRUE, 0, -1, TRUE), Lit(<<">">>)>>,
       <<Lit(<<"&">>), Rep(Word, FALSE, 1, -1, TRUE), Lit(<<";">>)>> >>

(***************************************************************************)
(* The extraction loop's body, field by field (for doc in clean_docs).     *)
(* Each operator gives the value the body appends for doc.                 *)
(***************************************************************************)
NA == <<"N", "A">>

\* the whole match, group(0), in place of group(1): not what the code does
ExtractGrantIdWholeMatch(doc) ==
    LET m == Search(GRANT_ID_PATTERN, doc)
    IN  IF m.ok THEN Group0(doc, m) ELSE NA

\* grant_id: group(1) of the first match; AttributeError on None -> 'NA'
ExtractGrantId(doc) ==
    LET m == Search(GRANT_ID_PATTERN, doc)
    IN  IF m.ok THEN Group(doc, m, 1) ELSE NA

\* the dict kind_map ... .get(kind, 'NA'); a description is one lexeme
KindMapGet(kind) ==
    CASE kind = <<"B", "2">> ->
           <<"Utility Patent Grant (with a published application) issued on or after January 2, 2001.">>
      [] kind = <<"B", "1">> ->
           <<"Utility Patent Grant (no published application) issued on or after January 2, 2001.">>
      [] kind = <<"S", "1">> -> <<"Design Patent">>
      [] kind = <<"E", "1">> -> <<"Reissue Patent">>
      [] kind = <<"P", "1">> ->
           <<"Plant Patent Application published on or after January 2, 2001">>
      [] kind = <<"P", "2">> ->
           <<"Plant Patent Grant (no published application) issued on or after January 2, 2001">>
      [] kind = <<"P", "3">> ->
           <<"Plant Patent Grant (with a published application) issued on or after January 2, 2001">>
      [] OTHER -> NA

\* kinds.append(kind) in place of kinds.append(kind_map): not what the code
\* does
ExtractKindCode(doc) ==
    LET m == Search(KIND_PATTERN, doc)
    IN  IF m.ok THEN Group(doc, m, 1) ELSE NA

\* kind: the value appended to kinds is kind_map
ExtractKind(doc) ==
    LET m == Search(KIND_PATTERN, doc)
    IN  IF m.ok THEN KindMapGet(Group(doc, m, 1)) ELSE NA

ExtractPatentTitle(doc) ==
    LET m == Search(PATENT_TITLE_PATTERN, doc)
    IN  IF m.ok THEN Group(doc, m, 1) ELSE NA

ExtractNumClaims(doc) ==
    LET m == Search(NUMBER_OF_CLAIMS_PATTERN, doc)
    IN  IF m.ok THEN StrToInt(Group(doc, m, 1)) ELSE 0

\* 1 when pattern.search(doc) finds the label and 0 otherwise: not what the
\* code does
ExaminerLabelFound(doc) ==
    IF Search(CITATIONS_EXAMINER_COUNT_PATTERN, doc).ok THEN 1 ELSE 0

\* len(pattern.findall(doc)); findall never raises TypeError on a str
ExtractCitationsExaminer(doc) ==
    Len(FindAll(CITATIONS_EXAMINER_COUNT_PATTERN, doc))

ExtractCitationsApplicant(doc) ==
    Len(FindAll(CITATIONS_APPLICANT_COUNT_PATTERN, doc))

\* f"{last} {first}" in place of f"{first} {last}": not what the code does
InventorNamesLastFirst(block) ==
    LET ms == FindAll(INVENTORS_PATTERN, block)
    IN  [k \in 1..Len(ms) |->
            Group(block, ms[k], 1) \o <<" ">> \o Group(block, ms[k], 2)]

\* [f"{first} {last}" for last, first in INVENTORS_PATTERN.findall(block)]
InventorNames(block) ==
    LET ms == FindAll(INVENTORS_PATTERN, block)
    IN  [k \in 1..Len(ms) |->
            Group(block, ms[k], 2) \o <<" ">> \o Group(block, ms[k], 1)]

\* inventors: inventors_block.group() raises on None before anything is
\* appended to inventor_list, and the bare except appends 'NA'
ExtractInventors(doc) ==
    LET inventors_block == Search(INVENTORS_TAG_PATTERN, doc)
        inventor_list ==
            IF inventors_block.ok
            THEN InventorNames(Group0(doc, inventors_block))
            ELSE <<NA>>
    IN  <<"[">> \o StrJoin(<<",">>, inventor_list) \o <<"]">>

\* the claim strings of a claims block, each cleaned by re.sub
ClaimList(block) ==
    LET ms == FindAll(CLAIMS_TEXT_PATTERN, block)
    IN  [k \in 1..Len(ms) |-> SubDelete(CLEANUP_PATTERN, Group(block, ms[k], 1))]

\* claims_text: what the body appends to claims_texts for doc.  With no
\* claims block, claims_block.group() raises AttributeError with claim_list
\* still empty: the handler appends 'NA', and the statement after the try
\* appends f"[{','.join(claim_list)}]" as well.
ClaimsAppended(doc) ==
    LET claims_block == Search(CLAIMS_TAG_PATTERN, doc)
    IN  IF claims_block.ok
        THEN << <<"[">>
                  \o StrJoin(<<",">>, ClaimList(Group0(doc, claims_block)))
                  \o <<"]">> >>
        ELSE <<NA, <<"[">> \o StrJoin(<<",">>, <<>>) \o <<"]">> >>

\* the abstract with '' for its default: not what the code does
ExtractAbstractOrEmpty(doc) ==
    LET abstract_block == Search(ABSTRACT_PATTERN, doc)
    IN  IF abstract_block.ok
        THEN SubDelete(CLEANUP_PATTERN, Group(doc, abstract_block, 1))
        ELSE <<>>

ExtractAbstract(doc) ==
    LET abstract_block == Search(ABSTRACT_PATTERN, doc)
    IN  IF abstract_block.ok
        THEN SubDelete(CLEANUP_PATTERN, Group(doc, abstract_block, 1))
        ELSE NA

(***************************************************************************)
(* clean_xml_docs                                                          *)
(***************************************************************************)
\* '<?xml version="1.0" encoding="UTF-8"?>'
XML_DECLARATION ==
    <<"<", "?", "xml", " ", "version", "=", "\"", "1", ".", "0", "\"", " ",
      "encoding", "=", "\"", "U", "T", "F", "-", "8", "\"", "?", ">">>

\* the file read with newline='' (no translation of line ends): not what
\* the code does
FileReadUntranslated(contents) == contents

\* open(file_path, 'r', encoding='utf-8').read(): text mode with universal
\* newlines, which gives '\n' for each '\r\n' and each remaining '\r'
FileRead(contents) ==
    StrReplace(StrReplace(contents, <<"\r", "\n">>, <<"\n">>),
               <<"\r">>, <<"\n">>)

\* html_entities, in the dict's (insertion) order.  A replacement text of
\* several non-ASCII characters is one opaque lexeme, named after the
\* character reference it stands for.
html_entities ==
    << <<(<<"&", "amp", ";">>), <<"&">> >>,
       <<(<<"&", "lt", ";">>), <<"<">> >>,
       <<(<<"&", "gt", ";">>), <<">">> >>,
       <<(<<"&", "quot", ";">>), <<"\"">> >>,
       <<(<<"&", "#", "3", "9", ";">>), <<"'">> >>,
       <<(<<"&", "#", "x", "2", "0", "1", "8", ";">>), <<"~2018~">> >>,
       <<(<<"&", "#", "x", "2", "0", "1", "9", ";">>), <<"~2019~">> >>,
       <<(<<"&", "#", "xe", "7", ";">>), <<"~e7~">> >>,
       <<(<<"&", "#", "x", "2", "0", "1", "3", ";">>), <<"~2013~">> >>,
       <<(<<"&", "#", "x", "2", "0", "1", "4", ";">>), <<"~2014~">> >>,
       <<(<<"&", "#", "x", "2", "0", "1", "c", ";">>), <<"~201c~">> >>,
       <<(<<"&", "#", "x", "2", "0", "1", "d", ";">>), <<"~201d~">> >> >>

RECURSIVE ReplaceEntitiesFrom(_, _)
\* for entity, char in html_entities.items(): doc = doc.replace(entity, char)
ReplaceEntitiesFrom(doc, k) ==
    IF k > Len(html_entities) THEN doc
    ELSE ReplaceEntitiesFrom(
             StrReplace(doc, html_entities[k][1], html_entities[k][2]), k + 1)

ReplaceEntities(doc) == ReplaceEntitiesFrom(doc, 1)

\* doc.replace('\n', '')
RemoveNewlines(doc) == StrReplace(doc, <<"\n">>, <<>>)

\* docs.split(XML_DECLARATION), the first piece kept: not what the code does
SplitDocsKeepingFirst(docs) == StrSplit(docs, XML_DECLARATION)

\* docs.split(XML_DECLARATION)[1:]
SplitDocs(docs) == Tail(StrSplit(docs, XML_DECLARATION))

\* list(filter(lambda x: len(x.strip()) > 0, xml_docs))
FilterNonEmpty(xml_docs) == SelectSeq(xml_docs, StripNonEmpty)

clean_xml_docs(contents) ==
    LET xml_docs == SplitDocs(FileRead(contents))
    IN  FilterNonEmpty(
            [k \in 1..Len(xml_docs) |->
                ReplaceEntities(RemoveNewlines(xml_docs[k]))])

(***************************************************************************)
(* The DataFrame and the JSON text.  A cell holds a str or an int (the     *)
(* column's dtype): isinstance(value, str) is cell.ty = "str".  A column   *)
(* name is one lexeme.                                                     *)
(***************************************************************************)
\* Python's None
None == [none |-> TRUE]

StrCell(s) == [ty |-> "str", s |-> s, n |-> 0, o |-> <<>>]

IntCell(n) == [ty |-> "int", s |-> <<>>, n |-> n, o |-> <<>>]

\* a decoded JSON object: its (key, value) pairs
ObjCell(o) == [ty |-> "obj", s |-> <<>>, n |-> 0, o |-> o]

\* the column order of the dict given to pd.DataFrame, were the reordering
\* df = df[[...]] left out: not what the code does
COLUMNS_AS_CONSTRUCTED ==
    <<"grant_id", "kind", "patent_title", "number_of_claims",
      "citations_examiner_count", "citations_applicant_count", "inventors",
      "claims_text", "abstract">>

\* the column order of df after df = df[[...]]
COLUMNS ==
    <<"grant_id", "patent_title", "kind", "number_of_claims", "inventors",
      "citations_applicant_count", "citations_examiner_count", "claims_text",
      "abstract">>

\* value = re.sub('"', '\\"', value); value = f'"{value}"' for a str, and
\* the f-string's str(value) for an int
EmitValue(cell) ==
    IF cell.ty = "str"
    THEN <<"\"">> \o StrReplace(cell.s, <<"\"">>, <<"\\", "\"">>) \o <<"\"">>
    ELSE IntToStr(cell.n)

RECURSIVE EmitItems(_, _, _)
\* for key2, value in record.items(): json_data += f'"{key2}": {value},'
EmitItems(acc, record, k) ==
    IF k > Len(record) THEN acc
    ELSE EmitItems(acc \o <<"\"", record[k][1], "\"", ":", " ">>
                       \o EmitValue(record[k][2]) \o <<",">>,
                   record, k + 1)

RECURSIVE EmitRecords(_, _, _)
\* the loop over enumerate(data.items())
EmitRecords(acc, d, k) ==
    IF k > Len(d) THEN acc
    ELSE LET sep    == IF k > 1 THEN <<",", "\n">> ELSE <<>>
             opened == acc \o sep \o <<"\"">> \o d[k][1]
                           \o <<"\"", ":", " ", "{">>
             items  == EmitItems(opened, d[k][2], 1)
         IN  \* json_data = json_data[:-1] + '}'
             EmitRecords(SubSeq(items, 1, Len(items) - 1) \o <<"}">>, d, k + 1)

\* the JSON text built for the dict d
EmitJson(d) == EmitRecords(<<"{">>, d, 1) \o <<"}">>

(***************************************************************************)
(* json.load, for the value forms the emitter writes (objects, strings,    *)
(* non-negative integers); any other form is reported as a decoding error. *)
(* A backslash is followed by a one-character lexeme in the modelled texts.*)
(***************************************************************************)
JsonFail == [ok |-> FALSE, v |-> None, end |-> 0]

JsonWs == {" ", "\n", "\r", "\t"}

\* the first position from p on that holds no JSON whitespace
SkipWs(s, p) == SetMin({q \in p..Len(s) : s[q] \notin JsonWs} \cup {Len(s) + 1})

\* the character an escape \e stands for (a control character is written
\* here as the lexeme of its Python escape)
Unescaped(e) ==
    CASE e = "b" -> "\\b" [] e = "f" -> "\f" [] e = "n" -> "\n"
      [] e = "r" -> "\r" [] e = "t" -> "\t" [] OTHER -> e

RECURSIVE ScanString(_, _, _)
\* the string whose opening quote precedes q; acc is what was read so far
ScanString(s, q, acc) ==
    IF q > Len(s) THEN JsonFail
    ELSE CASE s[q] = "\"" -> [ok |-> TRUE, v |-> StrCell(acc), end |-> q + 1]
           [] s[q] = "\\" ->
                IF q + 1 <= Len(s)
                   /\ s[q + 1] \in {"\"", "\\", "/", "b", "f", "n", "r", "t"}
                THEN ScanString(s, q + 2, Append(acc, Unescaped(s[q + 1])))
                ELSE JsonFail
           [] s[q] \in {"\n", "\r", "\t"} -> JsonFail
           [] OTHER -> ScanString(s, q + 1, Append(acc, s[q]))

\* a JSON integer: 0, or a digit run that does not start with 0
ScanInt(s, p) ==
    LET stop == SetMin({q \in p..Len(s) : s[q] \notin Digit} \cup {Len(s) + 1})
        q    == IF s[p] = "0" THEN p + 1 ELSE stop
    IN  [ok |-> TRUE, v |-> IntCell(StrToInt(Slice(s, p, q))), end |-> q]

\* d[key] = value on a dict held as (key, value) pairs in insertion order
DictSet(d, key, value) ==
    IF \E k \in 1..Len(d) : d[k][1] = key
    THEN [k \in 1..Len(d) |-> IF d[k][1] = key THEN <<key, value>> ELSE d[k]]
    ELSE Append(d, <<key, value>>)

RECURSIVE ParseValue(_, _), ParseMembers(_, _, _)
\* the members of an object from its key at p on; acc holds those read
ParseMembers(s, p, acc) ==
    IF p > Len(s) \/ s[p] # "\"" THEN JsonFail
    ELSE LET key == ScanString(s, p + 1, <<>>)
             c   == SkipWs(s, key.end)
             val == ParseValue(s, SkipWs(s, c + 1))
             e   == SkipWs(s, val.end)
             d   == DictSet(acc, key.v.s, val.v)
         IN  IF ~key.ok \/ c > Len(s) \/ s[c] # ":" THEN JsonFail
             ELSE IF ~val.ok \/ e > Len(s) THEN JsonFail
             ELSE IF s[e] = "}"
                  THEN [ok |-> TRUE, v |-> ObjCell(d), end |-> e + 1]
             ELSE IF s[e] = "," THEN ParseMembers(s, SkipWs(s, e + 1), d)
             ELSE JsonFail

ParseValue(s, p) ==
    IF p > Len(s) THEN JsonFail
    ELSE CASE s[p] = "\"" -> ScanString(s, p + 1, <<>>)
           [] s[p] \in Digit -> ScanInt(s, p)
           [] s[p] = "{" ->
                LET q == SkipWs(s, p + 1)
                IN  IF q <= Len(s) /\ s[q] = "}"
                    THEN [ok |-> TRUE, v |-> ObjCell(<<>>), end |-> q + 1]
                    ELSE ParseMembers(s, q, <<>>)
           [] OTHER -> JsonFail

\* json.load of the text s: the value, or JSONDecodeError (ok = FALSE)
JsonLoad(s) ==
    LET r == ParseValue(s, SkipWs(s, 1))
    IN  IF r.ok /\ SkipWs(s, r.end) = Len(s) + 1 THEN r ELSE JsonFail

(***************************************************************************)
(* The program's state                                                     *)
(***************************************************************************)
VARIABLES
    pc,                   \* the cell about to run, "done", or "error"
    raw,                  \* the contents of the file at FILE_PATH
    clean_docs,           \* clean_docs = clean_xml_docs(FILE_PATH)
    i,                    \* the documents the for loop has processed
    grant_ids, kinds, patent_titles, num_claims, cit_examiner_counts,
    cit_applicant_counts, inventors, claims_texts, abstracts,
    df,                   \* the DataFrame: its columns and its rows
    data,                 \* df.to_dict(orient='index'): (key, record) pairs
    json_data,            \* the JSON text written to patent_grants.json
    loaded                \* what json.load gives back for that text
                          \* (df, data, json_data and loaded are assigned by
                          \* the cells "frame", "index", "emit" and "verify";
                          \* before that they hold an empty value)

lists == <<grant_ids, kinds, patent_titles, num_claims, cit_examiner_counts,
           cit_applicant_counts, inventors, claims_texts, abstracts>>

outputs == <<df, data, json_data, loaded>>

vars == <<pc, raw, clean_docs, i, lists, outputs>>

\* df before the cell that creates it has run
NoFrame == [columns |-> <<>>, rows |-> <<>>]

\* the state in which the cell that calls clean_xml_docs is about to run,
\* the file holding contents
InitFile(contents) ==
    /\ raw = contents
    /\ pc = "clean"
    /\ clean_docs = <<>>
    /\ i = 0
    /\ grant_ids = <<>> /\ kinds = <<>> /\ patent_titles = <<>>
    /\ num_claims = <<>> /\ cit_examiner_counts = <<>>
    /\ cit_applicant_counts = <<>> /\ inventors = <<>>
    /\ claims_texts = <<>> /\ abstracts = <<>>
    /\ df = NoFrame /\ data = <<>> /\ json_data = <<>> /\ loaded = JsonFail

\* clean_docs = clean_xml_docs(FILE_PATH), and the empty lists
CleanXmlDocs ==
    /\ pc = "clean"
    /\ clean_docs' = clean_xml_docs(raw)
    /\ pc' = "parse"
    /\ UNCHANGED <<raw, i, lists, outputs>>

\* one iteration of `for doc in clean_docs`
ProcessDoc ==
    /\ pc = "parse"
    /\ i < Len(clean_docs)
    /\ LET doc == clean_docs[i + 1]
       IN  /\ grant_ids' = Append(grant_ids, ExtractGrantId(doc))
           /\ kinds' = Append(kinds, ExtractKind(doc))
           /\ patent_titles' = Append(patent_titles, ExtractPatentTitle(doc))
           /\ num_claims' = Append(num_claims, ExtractNumClaims(doc))
           /\ cit_examiner_counts' =
                  Append(cit_examiner_counts, ExtractCitationsExaminer(doc))
           /\ cit_applicant_counts' =
                  Append(cit_applicant_counts, ExtractCitationsApplicant(doc))
           /\ inventors' = Append(inventors, ExtractInventors(doc))
           /\ claims_texts' = claims_texts \o ClaimsAppended(doc)
           /\ abstracts' = Append(abstracts, ExtractAbstract(doc))
    /\ i' = i + 1
    /\ UNCHANGED <<pc, raw, clean_docs, outputs>>

\* pd.DataFrame({...}) and the column reordering: the constructor raises
\* ValueError when the nine lists differ in length; row r holds entry r of
\* each list
AllSameLength ==
    \A l \in {Len(kinds), Len(patent_titles), Len(num_claims),
              Len(cit_examiner_counts), Len(cit_applicant_counts),
              Len(inventors), Len(claims_texts), Len(abstracts)} :
        l = Len(grant_ids)

DataFrameRow(r) ==
    [grant_id |-> StrCell(grant_ids[r]),
     patent_title |-> StrCell(patent_titles[r]),
     kind |-> StrCell(kinds[r]),
     number_of_claims |-> IntCell(num_claims[r]),
     inventors |-> StrCell(inventors[r]),
     citations_applicant_count |-> IntCell(cit_applicant_counts[r]),
     citations_examiner_count |-> IntCell(cit_examiner_counts[r]),
     claims_text |-> StrCell(claims_texts[r]),
     abstract |-> StrCell(abstracts[r])]

CreateDataFrame ==
    /\ pc = "parse"
    /\ i = Len(clean_docs)
    /\ IF AllSameLength
       THEN /\ df' = [columns |-> COLUMNS,
                      rows |-> [r \in 1..Len(grant_ids) |-> DataFrameRow(r)]]
            /\ pc' = "index"
       ELSE /\ df' = df
            /\ pc' = "error"
    /\ UNCHANGED <<raw, clean_docs, i, lists, data, json_data, loaded>>

\* the record of a row under to_dict(orient='index'): the columns other
\* than the index, in column order
RowRecord(row, columns) ==
    LET rest == SelectSeq(columns, LAMBDA c : c # "grant_id")
    IN  [k \in 1..Len(rest) |-> <<rest[k], row[rest[k]]>>]

IndexIsUnique(rows) ==
    \A r1, r2 \in 1..Len(rows) :
        rows[r1].grant_id = rows[r2].grant_id => r1 = r2

\* df.set_index('grant_id'); data = df.to_dict(orient='index'): pandas
\* raises ValueError ("DataFrame index must be unique for orient='index'")
\* when two rows have the same grant_id
SetIndexToDict ==
    /\ pc = "index"
    /\ IF IndexIsUnique(df.rows)
       THEN /\ data' = [r \in 1..Len(df.rows) |->
                           <<df.rows[r].grant_id.s,
                             RowRecord(df.rows[r], df.columns)>>]
            /\ pc' = "emit"
       ELSE /\ data' = data
            /\ pc' = "error"
    /\ UNCHANGED <<raw, clean_docs, i, lists, df, json_data, loaded>>

\* the cell that builds json_data and writes patent_grants.json
WriteJson ==
    /\ pc = "emit"
    /\ json_data' = EmitJson(data)
    /\ pc' = "verify"
    /\ UNCHANGED <<raw, clean_docs, i, lists, df, data, loaded>>

\* the verifying cell: json.load(f) raises on text that is not JSON
VerifyOutputs ==
    /\ pc = "verify"
    /\ loaded' = JsonLoad(json_data)
    /\ pc' = IF loaded'.ok THEN "done" ELSE "error"
    /\ UNCHANGED <<raw, clean_docs, i, lists, df, data, json_data>>

\* the cells up to the end of the extraction loop
NextParse == CleanXmlDocs \/ ProcessDoc

(***************************************************************************)
(* Input texts                                                             *)
(***************************************************************************)
Tag(x) == <<"<", x, ">">>

EndTag(x) == <<"<", "/", x, ">">>

RECURSIVE Flatten(_)
\* the concatenation of a sequence of texts
Flatten(ss) == IF ss = <<>> THEN <<>> ELSE Head(ss) \o Flatten(Tail(ss))

\* the sequences over S of length at most n
SeqsUpTo(S, n) == UNION {[1..k -> S] : k \in 0..n}

\* <us-patent-grant file="<id>-2.XML">
GrantTag(id) ==
    <<"<", "us-patent-grant", " ", "file", "=", "\"">> \o id
        \o <<"-", "2", ".", "X", "M", "L", "\"", ">">>

\* <invention-title id="d">text</invention-title>
TitleElement(text) ==
    <<"<", "invention-title", " ", "id", "=", "\"", "d", "\"", ">">>
        \o text \o EndTag("invention-title")

CLAIMS_OPEN == <<"<", "claims", " ", "id", "=", "\"", "claims", "\"", ">">>

\* <claims id="claims"><claim-text>c</claim-text>...</claims>
ClaimsRegion(cs) ==
    CLAIMS_OPEN
        \o Flatten([k \in 1..Len(cs) |->
                       Tag("claim-text") \o cs[k] \o EndTag("claim-text")])
        \o EndTag("claims")

\* the file that holds the documents ds, each after an XML declaration and
\* ended by a line break
FileOf(ds) ==
    Flatten([k \in 1..Len(ds) |-> XML_DECLARATION \o ds[k] \o <<"\n">>])

(***************************************************************************)
(* Spec: the whole notebook, run on a file of up to MaxDocs documents      *)
(* taken from SampleDocs.                                                  *)
(***************************************************************************)
MaxDocs == 2

SampleDocs ==
    {GrantTag(<<"U", "S", "1">>) \o TitleElement(<<"T">>)
         \o ClaimsRegion(<< <<"C">> >>),
     \* the same grant id again, other contents
     GrantTag(<<"U", "S", "1">>) \o TitleElement(<<"V">>)
         \o ClaimsRegion(<< <<"C">>, <<"D">> >>),
     \* no claims region
     GrantTag(<<"U", "S", "2">>) \o TitleElement(<<"T">>),
     \* no root element
     TitleElement(<<"T">>) \o ClaimsRegion(<<>>),
     \* a backslash in the title
     GrantTag(<<"U", "S", "3">>) \o TitleElement(<<"A", "\\", "B">>)
         \o ClaimsRegion(<< <<"C">> >>),
     \* a quote (as a character reference) in the title
     GrantTag(<<"U", "S", "4">>)
         \o TitleElement(<<"A", "&", "quot", ";", "B">>)
         \o ClaimsRegion(<< <<"C">> >>),
     \* nothing but white space
     <<" ">>}

Init == \E ds \in SeqsUpTo(SampleDocs, MaxDocs) : InitFile(FileOf(ds))

Next ==
    \/ CleanXmlDocs
    \/ ProcessDoc
    \/ CreateDataFrame
    \/ SetIndexToDict
    \/ WriteJson
    \/ VerifyOutputs

Spec == Init /\ [][Next]_vars

(***************************************************************************)
(* Claims                                                                  *)
(***************************************************************************)
\* C1: once the loop has processed i documents, each of the nine per-field
\* lists holds exactly i entries (one nine-field record per document).
C1_OneEntryPerDocument ==
    pc = "parse" => \A k \in 1..Len(lists) : Len(lists[k]) = i

\* doc has a <claims id="claims"> ... </claims> bounding region
HasClaimsRegion(doc) ==
    \E p, q \in 1..Len(doc) :
        /\ HasAt(doc, p, CLAIMS_OPEN)
        /\ q >= p + Len(CLAIMS_OPEN)
        /\ HasAt(doc, q, EndTag("claims"))

\* C2: the claims_text entry of every processed document that has no claims
\* bounding region is "[]".
C2_NoClaimsRegionGivesEmptyList ==
    \A k \in 1..i :
        ~HasClaimsRegion(clean_docs[k]) =>
            /\ k <= Len(claims_texts)
            /\ claims_texts[k] = <<"[", "]">>

\* the rows of df that carry the grant id key
RowsOf(key) == {r \in 1..Len(df.rows) : df.rows[r].grant_id.s = key}

\* d has one entry per distinct grant id of df, with the fields of the
\* last row that has that id
LastWins(d) ==
    /\ \A r \in 1..Len(df.rows) :
           \E k \in 1..Len(d) : d[k][1] = df.rows[r].grant_id.s
    /\ \A k1, k2 \in 1..Len(d) : d[k1][1] = d[k2][1] => k1 = k2
    /\ \A k \in 1..Len(d) :
           /\ RowsOf(d[k][1]) # {}
           /\ d[k][2] = RowRecord(df.rows[SetMax(RowsOf(d[k][1]))], df.columns)

\* C8: when two or more records have the same grant_id, building the nested
\* encoding succeeds and yields one entry per distinct grant_id, with the
\* fields of the last record that has that id.
C8_DuplicateIdsLastWins ==
    (pc \in {"emit", "verify", "done", "error"}
        /\ df # NoFrame /\ ~IndexIsUnique(df.rows))
    => (pc # "error" /\ LastWins(data))

\* the entry that the decoded text holds under key, when it has one
Entry(obj, key) ==
    LET ks == {k \in 1..Len(obj.o) : obj.o[k][1] = key}
    IN  IF ks = {} THEN ObjCell(<<>>) ELSE obj.o[SetMin(ks)][2]

\* the decoded text gives back, for row r, the cell of each column but the key
RowRoundTrips(r) ==
    LET row == df.rows[r]
        e   == Entry(loaded.v, row.grant_id.s)
    IN  /\ e.ty = "obj"
        /\ \A c \in 1..Len(df.columns) :
               df.columns[c] # "grant_id" =>
                   \E k \in 1..Len(e.o) :
                       /\ e.o[k][1] = <<df.columns[c]>>
                       /\ e.o[k][2] = row[df.columns[c]]

\* C9: for records with pairwise distinct grant_ids, the JSON text written
\* is well formed and decodes to the values of the table, strings unchanged
\* and integers as integers.
C9_JsonRoundTrip ==
    (pc \in {"done", "error"} /\ json_data # <<>>)
    => /\ loaded.ok
       /\ loaded.v.ty = "obj"
       /\ \A r \in 1..Len(df.rows) : RowRoundTrips(r)

(***************************************************************************)
(* SpecSeg: the reading cell and the loop, on a raw text put together from *)
(* up to MaxChunks chunks: declarations, halves of a declaration, white    *)
(* space, line ends, a character reference and plain text.                 *)
(***************************************************************************)
MaxChunks == 4

\* '<?xml version="1.0"' and ' encoding="UTF-8"?>'
DECLARATION_HEAD == SubSeq(XML_DECLARATION, 1, 11)

DECLARATION_TAIL == SubSeq(XML_DECLARATION, 12, Len(XML_DECLARATION))

SegChunks ==
    {XML_DECLARATION, DECLARATION_HEAD, DECLARATION_TAIL,
     <<"\n">>, <<"\r">>, <<" ">>, <<"x">>, <<"&", "lt", ";">>}

InitSeg == \E cs \in SeqsUpTo(SegChunks, MaxChunks) : InitFile(Flatten(cs))

SpecSeg == InitSeg /\ [][NextParse]_vars

\* the positions of raw at which a declaration marker starts
MarkerPositions == {p \in 1..Len(raw) : HasAt(raw, p, XML_DECLARATION)}

\* the text between the marker at p and the next marker (or the end)
SegmentAfter(p) ==
    LET later == {q \in MarkerPositions : q > p}
        stop  == IF later = {} THEN Len(raw) + 1 ELSE SetMin(later)
    IN  Slice(raw, p + Len(XML_DECLARATION), stop)

\* a segment after its line ends are removed and its references replaced
Cleaned(seg) == ReplaceEntities(RemoveNewlines(FileRead(seg)))

\* the markers whose segment is neither empty nor white space once cleaned
KeptMarkers == {p \in MarkerPositions : StripNonEmpty(Cleaned(SegmentAfter(p)))}

\* the k-th smallest element of the set S of integers
NthOf(S, k) == CHOOSE p \in S : Cardinality({q \in S : q < p}) = k - 1

\* C6: the documents returned by clean_xml_docs are as many as the markers of
\* the raw text less the post-marker segments that are blank once cleaned;
\* they are those cleaned segments in order, so that the text before the first
\* marker is no document; with no marker the result is the empty list.
C6_DocumentCount ==
    pc # "clean" =>
        /\ Len(clean_docs) =
               Cardinality(MarkerPositions)
                   - Cardinality(MarkerPositions \ KeptMarkers)
        /\ \A k \in 1..Len(clean_docs) :
               \A p \in {NthOf(KeptMarkers, k)} :
                   clean_docs[k] = Cleaned(SegmentAfter(p))
        /\ (MarkerPositions = {} => clean_docs = <<>>)

\* a raw text with text before its first marker, a blank segment and a
\* segment that is kept, after the reading cell
C6_Witness ==
    /\ pc = "parse"
    /\ MarkerPositions # {}
    /\ StripNonEmpty(Slice(raw, 1, SetMin(MarkerPositions)))
    /\ MarkerPositions \ KeptMarkers # {}
    /\ Len(clean_docs) = 1

\* a raw text without any marker, after the reading cell
C6_WitnessNoMarker ==
    /\ pc = "parse"
    /\ MarkerPositions = {}
    /\ StripNonEmpty(raw)

(***************************************************************************)
(* SpecDefaults: the reading cell and the loop on a file of one document   *)
(* put together from up to MaxPieces pieces, each the opening or the       *)
(* closing part of one field's element.                                    *)
(***************************************************************************)
MaxPieces == 3

EXAMINER_LABEL ==
    <<"<", "category", ">", "cited", " ", "by", " ", "examiner",
      "<", "/", "category", ">">>

APPLICANT_LABEL ==
    <<"<", "category", ">", "cited", " ", "by", " ", "applicant",
      "<", "/", "category", ">">>

\* <inventor><addressbook><last-name>l</last-name><first-name>f</first-name>
\* </addressbook></inventor>
InventorElement(l, f) ==
    Tag("inventor") \o Tag("addressbook")
        \o Tag("last-name") \o l \o EndTag("last-name")
        \o Tag("first-name") \o f \o EndTag("first-name")
        \o EndTag("addressbook") \o EndTag("inventor")

INVENTORS_OPEN == <<"<", "inventor", "s", ">">>

INVENTORS_CLOSE == <<"<", "/", "inventor", "s", ">">>

FieldPieces ==
    {<<"<", "us-patent-grant", " ", "file", "=", "\"", "U", "S", "1", "-", "2">>,
     <<".", "X", "M", "L", "\"", ">">>,
     Tag("publication-reference") \o Tag("kind") \o <<"B", "2">> \o EndTag("kind"),
     EndTag("publication-reference"),
     <<"<", "invention-title", " ", "id", "=", "\"", "d", "\"", ">", "T">>,
     EndTag("invention-title"),
     Tag("number-of-claims") \o <<"3">>,
     EndTag("number-of-claims"),
     EXAMINER_LABEL,
     APPLICANT_LABEL,
     SubSeq(EXAMINER_LABEL, 1, 8),
     INVENTORS_OPEN \o InventorElement(<<"L">>, <<"F">>),
     INVENTORS_CLOSE,
     Tag("abstract") \o Tag("p") \o <<"A">> \o EndTag("p"),
     EndTag("abstract")}

InitDefaults ==
    \E ps \in SeqsUpTo(FieldPieces, MaxPieces) :
        InitFile(XML_DECLARATION \o Flatten(ps) \o <<"\n">>)

SpecDefaults == InitDefaults /\ [][NextParse]_vars

\* doc lacks one of the markers in anchors
Lacks(doc, anchors) == \E a \in anchors : StrFind(doc, a, 1) = 0

GrantAnchors ==
    {<<"<", "us-patent-grant">>, <<"file", "=", "\"">>,
     <<".", "X", "M", "L", "\"">>}

KindAnchors ==
    {Tag("publication-reference"), Tag("kind"), EndTag("kind"),
     EndTag("publication-reference")}

TitleAnchors == {<<"<", "invention-title">>, EndTag("invention-title")}

NumClaimsAnchors == {Tag("number-of-claims"), EndTag("number-of-claims")}

InventorsAnchors == {INVENTORS_OPEN, INVENTORS_CLOSE}

AbstractAnchors == {<<"<", "abstract">>, EndTag("abstract")}

\* C3: for each processed document and each of the eight fields other than
\* claims_text, a document that lacks one of the field's anchor markers has
\* the field's default in its record: "NA" for grant_id, kind, patent_title
\* and abstract, 0 for number_of_claims and the two citation counts, "[NA]"
\* for inventors; the loop appends a value in every case (nothing is raised).
C3_DefaultsWhenAnchorsMissing ==
    \A k \in 1..i : \A doc \in {clean_docs[k]} :
        /\ k <= Len(grant_ids) /\ k <= Len(kinds) /\ k <= Len(patent_titles)
        /\ k <= Len(num_claims) /\ k <= Len(cit_examiner_counts)
        /\ k <= Len(cit_applicant_counts) /\ k <= Len(inventors)
        /\ k <= Len(abstracts)
        /\ (Lacks(doc, GrantAnchors) => grant_ids[k] = NA)
        /\ (Lacks(doc, KindAnchors) => kinds[k] = NA)
        /\ (Lacks(doc, TitleAnchors) => patent_titles[k] = NA)
        /\ (Lacks(doc, NumClaimsAnchors) => num_claims[k] = 0)
        /\ (Lacks(doc, {EXAMINER_LABEL}) => cit_examiner_counts[k] = 0)
        /\ (Lacks(doc, {APPLICANT_LABEL}) => cit_applicant_counts[k] = 0)
        /\ (Lacks(doc, InventorsAnchors) => inventors[k] = <<"[", "N", "A", "]">>)
        /\ (Lacks(doc, AbstractAnchors) => abstracts[k] = NA)

\* a processed document with a whole kind element, and with the opening part
\* of an abstract that is never closed
C3_Witness ==
    /\ i = 1
    /\ kinds[1] # NA
    /\ StrFind(clean_docs[1], <<"<", "abstract">>, 1) > 0
    /\ Lacks(clean_docs[1], AbstractAnchors)
    /\ abstracts[1] = NA

(***************************************************************************)
(* SpecInventors: a file of one document that holds an <inventors> region  *)
(* of up to MaxInventorItems items.                                        *)
(***************************************************************************)
MaxInventorItems == 3

InventorItems ==
    {InventorElement(<<"L">>, <<"F">>),
     \* an inventor without a first name
     Tag("inventor") \o Tag("addressbook")
         \o Tag("last-name") \o <<"L">> \o EndTag("last-name")
         \o EndTag("addressbook") \o EndTag("inventor"),
     <<"<", "inventor", " ", "sequence", "=", "\"", "1", "\"", ">">>,
     <<"x">>}

InitInventors ==
    \E items \in SeqsUpTo(InventorItems, MaxInventorItems) :
        InitFile(XML_DECLARATION \o INVENTORS_OPEN \o Flatten(items)
                     \o INVENTORS_CLOSE \o <<"\n">>)

SpecInventors == InitInventors /\ [][NextParse]_vars

\* doc has an <inventors> ... </inventors> bounding region
HasInventorsRegion(doc) ==
    \E p, q \in 1..Len(doc) :
        /\ HasAt(doc, p, INVENTORS_OPEN)
        /\ q >= p + Len(INVENTORS_OPEN)
        /\ HasAt(doc, q, INVENTORS_CLOSE)

\* C4: a processed document that has an <inventors> region, and nothing in it
\* that matches the last-name/first-name pair pattern, has "[NA]" for its
\* inventors value.
C4_RegionWithoutPairsGivesNA ==
    \A k \in 1..i : \A doc \in {clean_docs[k]} :
        (HasInventorsRegion(doc) /\ FindAll(INVENTORS_PATTERN, doc) = <<>>)
            => inventors[k] = <<"[", "N", "A", "]">>

(***************************************************************************)
(* SpecTitle: a file of one document that holds an invention-title         *)
(* element, its opening tag with or without attributes, its text of up to  *)
(* MaxTitleLen characters.                                                 *)
(***************************************************************************)
MaxTitleLen == 3

TitleAttributes ==
    {<<>>,
     <<" ", "id", "=", "\"", "d", "\"">>,
     <<" ", "id", "=", "\"", "\"">>}

InitTitle ==
    \E a \in TitleAttributes, text \in SeqsUpTo({"T", "V", " "}, MaxTitleLen) :
        InitFile(XML_DECLARATION \o <<"<", "invention-title">> \o a \o <<">">>
                     \o text \o EndTag("invention-title") \o <<"\n">>)

SpecTitle == InitTitle /\ [][NextParse]_vars

\* where the first opening title tag of doc starts and ends, and where the
\* closing title tag after it starts (0 when there is none)
TitleOpen(doc) == StrFind(doc, <<"<", "invention-title">>, 1)

TitleOpenEnd(doc) ==
    IF TitleOpen(doc) = 0 THEN 0 ELSE StrFind(doc, <<">">>, TitleOpen(doc))

TitleClose(doc) ==
    IF TitleOpenEnd(doc) = 0 THEN 0
    ELSE StrFind(doc, EndTag("invention-title"), TitleOpenEnd(doc))

\* C5: a processed document that holds <invention-title ...>text
\* </invention-title> has text for its patent_title, whether or not the
\* opening tag carries an id attribute.
C5_TitleWithOrWithoutId ==
    \A k \in 1..i : \A doc \in {clean_docs[k]} :
        TitleClose(doc) > 0 =>
            patent_titles[k] = Slice(doc, TitleOpenEnd(doc) + 1, TitleClose(doc))

(***************************************************************************)
(* SpecCitations: a file of one document put together from up to           *)
(* MaxCiteItems items: citation labels, inside or outside other elements.  *)
(***************************************************************************)
MaxCiteItems == 4

CiteItems ==
    {EXAMINER_LABEL, APPLICANT_LABEL,
     \* a label that is not closed
     SubSeq(EXAMINER_LABEL, 1, 8),
     CLAIMS_OPEN, EndTag("claims"), <<"x">>}

InitCitations ==
    \E items \in SeqsUpTo(CiteItems, MaxCiteItems) :
        InitFile(XML_DECLARATION \o Flatten(items) \o <<"\n">>)

SpecCitations == InitCitations /\ [][NextParse]_vars

\* how many times v occurs in doc (v cannot overlap itself)
Occurrences(doc, v) == Cardinality({p \in 1..Len(doc) : HasAt(doc, p, v)})

\* C7: for each processed document, citations_examiner_count is the number
\* of occurrences of <category>cited by examiner</category> anywhere in the
\* document and citations_applicant_count that of
\* <category>cited by applicant</category>; each is 0 when there is none.
C7_CitationCounts ==
    \A k \in 1..i : \A doc \in {clean_docs[k]} :
        /\ cit_examiner_counts[k] = Occurrences(doc, EXAMINER_LABEL)
        /\ cit_applicant_counts[k] = Occurrences(doc, APPLICANT_LABEL)

\* a processed document with two examiner labels and one applicant label,
\* none of them inside a claims region
C7_Witness ==
    /\ i = 1
    /\ cit_examiner_counts[1] = 2
    /\ cit_applicant_counts[1] = 1
    /\ ~HasClaimsRegion(clean_docs[1])

(***************************************************************************)
(* SpecGrant: a file of one document whose root tag has a file attribute   *)
(* with a value of up to MaxFileLen characters before the extension, after *)
(* no other attribute, after lang or after file-reference-id.              *)
(***************************************************************************)
MaxFileLen == 7

RootAttributes ==
    {<<>>,
     <<" ", "lang", "=", "\"", "E", "N", "\"">>,
     <<" ", "file", "-", "reference-id", "=", "\"", "A", "B", "1", "\"">>}

InitGrant ==
    \E a \in RootAttributes, w \in SeqsUpTo({"A", "1", "-"}, MaxFileLen) :
        InitFile(XML_DECLARATION \o <<"<", "us-patent-grant">> \o a
                     \o <<" ", "file", "=", "\"">> \o w
                     \o <<".", "X", "M", "L", "\"", ">", "\n">>)

SpecGrant == InitGrant /\ [][NextParse]_vars

\* the value of the file attribute of doc (empty when there is none)
FileValue(doc) ==
    LET p == StrFind(doc, <<" ", "file", "=", "\"">>, 1)
    IN  IF p = 0 THEN <<>>
        ELSE Slice(doc, p + 4, StrFind(doc, <<"\"">>, p + 4))

\* x is two to four upper-case letters followed by one or more digits
IsGrantId(x) ==
    \E n \in 2..4 :
        /\ Len(x) > n
        /\ \A j \in 1..Len(x) : IF j <= n THEN x[j] \in Upper ELSE x[j] \in Digit

\* what comes before the first "-" of v
FileId(v) == Slice(v, 1, StrFind(v, <<"-">>, 1))

\* v is <ID>-<date>.XML
HasFileForm(v) ==
    /\ StrFind(v, <<"-">>, 1) > 0
    /\ IsGrantId(FileId(v))
    /\ HasAt(v, Len(v) - 3, <<".", "X", "M", "L">>)
    /\ StrFind(v, <<"-">>, 1) < Len(v) - 3

\* C10: a processed document whose root tag has a file attribute of the form
\* <ID>-<date>.XML, with <ID> two to four upper-case letters and then digits,
\* has <ID> for its grant_id; and every grant_id is "NA" or two to four
\* upper-case letters followed by one or more digits.
C10_GrantIdFromFileAttribute ==
    \A k \in 1..i : \A doc \in {clean_docs[k]} :
        /\ (HasAt(doc, 1, <<"<", "us-patent-grant">>)
               /\ HasFileForm(FileValue(doc)))
           => grant_ids[k] = FileId(FileValue(doc))
        /\ (grant_ids[k] = NA \/ IsGrantId(grant_ids[k]))

\* a processed document with file="AAAA1-1.XML" after a lang attribute
C10_Witness ==
    /\ i = 1
    /\ HasFileForm(FileValue(clean_docs[1]))
    /\ StrFind(clean_docs[1], <<"lang">>, 1) > 0
    /\ grant_ids[1] = <<"A", "A", "A", "A", "1">>

\* the keys of a record held as (key, value) pairs, in order
KeysOf(record) == [k \in 1..Len(record) |-> record[k][1]]

\* C11: the flat table has the nine columns grant_id, patent_title, kind,
\* number_of_claims, inventors, citations_applicant_count,
\* citations_examiner_count, claims_text, abstract in that order, and every
\* entry of the nested encoding (the dict, and the JSON text once decoded)
\* has the other eight as its inner keys in the same order.
C11_ColumnOrder ==
    /\ df # NoFrame =>
           df.columns =
               <<"grant_id", "patent_title", "kind", "number_of_claims",
                 "inventors", "citations_applicant_count",
                 "citations_examiner_count", "claims_text", "abstract">>
    /\ \A k \in 1..Len(data) :
           KeysOf(data[k][2]) =
               <<"patent_title", "kind", "number_of_claims", "inventors",
                 "citations_applicant_count", "citations_examiner_count",
                 "claims_text", "abstract">>
    /\ loaded.ok =>
           \A k \in 1..Len(loaded.v.o) :
               /\ loaded.v.o[k][2].ty = "obj"
               /\ KeysOf(loaded.v.o[k][2].o) =
                      << <<"patent_title">>, <<"kind">>, <<"number_of_claims">>,
                         <<"inventors">>, <<"citations_applicant_count">>,
                         <<"citations_examiner_count">>, <<"claims_text">>,
                         <<"abstract">> >>

\* a run that wrote two records and read them back
C11_Witness ==
    /\ pc = "done"
    /\ Len(df.rows) = 2
    /\ Len(data) = 2
    /\ Len(loaded.v.o) = 2

RECURSIVE LoopLists(_)
\* the nine lists after `for doc in clean_docs` has run over docs, starting
\* from the empty lists
LoopLists(docs) ==
    IF docs = <<>>
    THEN [grant_ids |-> <<>>, kinds |-> <<>>, patent_titles |-> <<>>,
          num_claims |-> <<>>, cit_examiner_counts |-> <<>>,
          cit_applicant_counts |-> <<>>, inventors |-> <<>>,
          claims_texts |-> <<>>, abstracts |-> <<>>]
    ELSE LET before == LoopLists(SubSeq(docs, 1, Len(docs) - 1))
             doc    == docs[Len(docs)]
         IN  [grant_ids |-> Append(before.grant_ids, ExtractGrantId(doc)),
              kinds |-> Append(before.kinds, ExtractKind(doc)),
              patent_titles |->
                  Append(before.patent_titles, ExtractPatentTitle(doc)),
              num_claims |-> Append(before.num_claims, ExtractNumClaims(doc)),
              cit_examiner_counts |->
                  Append(before.cit_examiner_counts,
                         ExtractCitationsExaminer(doc)),
              cit_applicant_counts |->
                  Append(before.cit_applicant_counts,
                         ExtractCitationsApplicant(doc)),
              inventors |-> Append(before.inventors, ExtractInventors(doc)),
              claims_texts |-> before.claims_texts \o ClaimsAppended(doc),
              abstracts |-> Append(before.abstracts, ExtractAbstract(doc))]

\* the documents clean_xml_docs returns for the sample documents
CleanSampleDocs ==
    UNION {{clean_xml_docs(FileOf(<<d>>))[k] :
                k \in 1..Len(clean_xml_docs(FileOf(<<d>>)))} : d \in SampleDocs}

\* the lists of the state, as a record
StateLists ==
    [grant_ids |-> grant_ids, kinds |-> kinds, patent_titles |-> patent_titles,
     num_claims |-> num_claims, cit_examiner_counts |-> cit_examiner_counts,
     cit_applicant_counts |-> cit_applicant_counts, inventors |-> inventors,
     claims_texts |-> claims_texts, abstracts |-> abstracts]

\* C12: the record at position k is determined by document k alone: when
\* the loop has run over clean_docs, then for every other sequence of
\* documents that has the same document at position k, each of the nine lists
\* holds at position k the same value in both runs.
C12_RecordDependsOnItsDocumentOnly ==
    (pc = "parse" /\ i = Len(clean_docs)) =>
        \A other \in SeqsUpTo(CleanSampleDocs, MaxDocs) :
            \A k \in 1..Len(clean_docs) :
                (k <= Len(other) /\ other[k] = clean_docs[k]) =>
                    \A ls \in {LoopLists(other)} :
                        \A f \in DOMAIN ls :
                            /\ k <= Len(ls[f])
                            /\ k <= Len(StateLists[f])
                            /\ ls[f][k] = StateLists[f][k]

(***************************************************************************)
(* SpecEntities: a file of one document put together from up to            *)
(* MaxEntityChunks chunks: character references, parts of them and text.   *)
(***************************************************************************)
MaxEntityChunks == 3

EntityChunks ==
    {<<"&", "amp", ";">>, <<"&", "lt", ";">>, <<"&", "#", "3", "9", ";">>,
     <<"lt", ";">>, <<"&">>, <<"x">>}

InitEntities ==
    \E cs \in SeqsUpTo(EntityChunks, MaxEntityChunks) :
        InitFile(XML_DECLARATION \o Flatten(cs) \o <<"\n">>)

SpecEntities == InitEntities /\ [][NextParse]_vars

RECURSIVE ReplaceEntitiesInOrder(_, _)
\* doc after the entries of html_entities are applied in the order given
\* (a sequence of indices into the table)
ReplaceEntitiesInOrder(doc, order) ==
    IF order = <<>> THEN doc
    ELSE ReplaceEntitiesInOrder(
             StrReplace(doc, html_entities[Head(order)][1],
                        html_entities[Head(order)][2]),
             Tail(order))

\* the table's order reversed, and the table's order with its first entry
\* moved to the end
EntityOrders ==
    {[k \in 1..Len(html_entities) |-> Len(html_entities) + 1 - k],
     [k \in 1..Len(html_entities) |->
         IF k = Len(html_entities) THEN 1 ELSE k + 1]}

\* C13: the document that clean_xml_docs returns for a segment is what the
\* substitution table gives for that segment in any other order of its
\* entries (here: the reversed order, and the first entry applied last).
C13_EntityOrderIrrelevant ==
    pc # "clean" =>
        \A k \in 1..Len(clean_docs) :
            \A seg \in {RemoveNewlines(
                            FileRead(SegmentAfter(NthOf(KeptMarkers, k))))} :
                \A order \in EntityOrders :
                    ReplaceEntitiesInOrder(seg, order) = clean_docs[k]

(***************************************************************************)
(* SpecCleanup: a file of one document with one claim and an abstract,     *)
(* both holding the same text of up to MaxCleanupLen characters.           *)
(***************************************************************************)
MaxCleanupLen == 5

\* <abstract><p>text</p></abstract>
AbstractElement(text) ==
    Tag("abstract") \o Tag("p") \o text \o EndTag("p") \o EndTag("abstract")

InitCleanup ==
    \E text \in SeqsUpTo({"&", "x", ";", "<", ">"}, MaxCleanupLen) :
        InitFile(XML_DECLARATION \o ClaimsRegion(<<text>>)
                     \o AbstractElement(text) \o <<"\n">>)

SpecCleanup == InitCleanup /\ [][NextParse]_vars

\* s holds a span < ... >
HasTag(s) == \E p, q \in 1..Len(s) : p < q /\ s[p] = "<" /\ s[q] = ">"

\* s holds a reference & word ;
HasReference(s) ==
    \E p, q \in 1..Len(s) :
        /\ p + 1 < q
        /\ s[p] = "&"
        /\ s[q] = ";"
        /\ \A j \in (p + 1)..(q - 1) : s[j] \in Word

\* s has nothing left for the cleanup to take out
IsClean(s) ==
    /\ ~HasTag(s)
    /\ ~HasReference(s)
    /\ SubDelete(CLEANUP_PATTERN, s) = s

\* C14: the claim string of each processed document (the text between the
\* brackets of its claims_text, the document having one claim) and its
\* abstract, when not the default, hold no <...> span and no &word;
\* reference, and the cleanup leaves them unchanged.
C14_CleanupLeavesNothing ==
    \A k \in 1..i :
        /\ k <= Len(claims_texts) =>
               \A c \in {SubSeq(claims_texts[k], 2, Len(claims_texts[k]) - 1)} :
                   IsClean(c)
        /\ abstracts[k] # NA => \A a \in {abstracts[k]} : IsClean(a)

(***************************************************************************)
(* SpecKind: a file of one document put together from up to MaxKindItems   *)
(* items: the tags that open and close a publication-reference region and  *)
(* kind elements with a code of the table, an unknown code and a code of   *)
(* three characters.                                                       *)
(***************************************************************************)
MaxKindItems == 4

\* <kind>code</kind>
KindElement(code) == Tag("kind") \o code \o EndTag("kind")

KindItems ==
    {Tag("publication-reference"), EndTag("publication-reference"),
     KindElement(<<"B", "1">>), KindElement(<<"S", "1">>),
     KindElement(<<"X", "9">>), KindElement(<<"B", "2", "2">>)}

InitKind ==
    \E items \in SeqsUpTo(KindItems, MaxKindItems) :
        InitFile(XML_DECLARATION \o Flatten(items) \o <<"\n">>)

SpecKind == InitKind /\ [][NextParse]_vars

\* doc has at q a kind element with the code of n characters, and this
\* element lies between an opening <publication-reference> and the first
\* </publication-reference> that follows it
KindInsideRegion(doc, q, n) ==
    /\ HasAt(doc, q, Tag("kind"))
    /\ HasAt(doc, q + 3 + n, EndTag("kind"))
    /\ \E p \in 1..(q - 1) :
           /\ HasAt(doc, p, Tag("publication-reference"))
           /\ StrFind(doc, EndTag("publication-reference"), p) >= q + 7 + n

\* C15: when the kind of a processed document is not the default, the
\* document has a kind element inside a publication-reference region (before
\* the first closing tag after the opening tag) whose code has the
\* description that is the document's kind.
C15_KindFromInsideRegion ==
    \A k \in 1..i : \A doc \in {clean_docs[k]} :
        kinds[k] # NA =>
            \E q \in 1..Len(doc), n \in 1..2 :
                /\ KindInsideRegion(doc, q, n)
                /\ KindMapGet(SubSeq(doc, q + 3, q + 2 + n)) = kinds[k]

\* the seven descriptions of the mapping table
KindDescriptions ==
    {<<"Utility Patent Grant (with a published application) issued on or after January 2, 2001.">>,
     <<"Utility Patent Grant (no published application) issued on or after January 2, 2001.">>,
     <<"Design Patent">>,
     <<"Reissue Patent">>,
     <<"Plant Patent Application published on or after January 2, 2001">>,
     <<"Plant Patent Grant (no published application) issued on or after January 2, 2001">>,
     <<"Plant Patent Grant (with a published application) issued on or after January 2, 2001">>}

\* the seven codes of the mapping table
KindCodes ==
    {<<"B", "2">>, <<"B", "1">>, <<"S", "1">>, <<"E", "1">>, <<"P", "1">>,
     <<"P", "2">>, <<"P", "3">>}

\* C16: the kind of every processed document is one of the seven
\* descriptions of the mapping table or "NA"; when the pattern captures a
\* code that is not in the table the kind is "NA", and the captured code is
\* not the kind.
C16_KindIsDescriptionOrNA ==
    \A k \in 1..i : \A doc \in {clean_docs[k]} :
        /\ kinds[k] \in KindDescriptions \cup {NA}
        /\ \A m \in {Search(KIND_PATTERN, doc)} :
               m.ok =>
                   /\ Group(doc, m, 1) \notin KindCodes => kinds[k] = NA
                   /\ Group(doc, m, 1) \in KindCodes =>
                          kinds[k] \in KindDescriptions
                   /\ kinds[k] # Group(doc, m, 1)

\* a processed document in which the code X9, not in the table, is captured
C16_Witness ==
    /\ i = 1
    /\ Search(KIND_PATTERN, clean_docs[1]).ok
    /\ Group(clean_docs[1], Search(KIND_PATTERN, clean_docs[1]), 1)
           = <<"X", "9">>
    /\ kinds[1] = NA

\* s without its line feeds and carriage returns
WithoutLineBreaks(s) == SelectSeq(s, LAMBDA c : c \notin {"\n", "\r"})

\* C17: no document returned by clean_xml_docs holds a line feed or a
\* carriage return: each document is its raw segment with every line feed
\* and carriage return taken out (and the references replaced).
C17_NoLineBreaks ==
    pc # "clean" =>
        \A k \in 1..Len(clean_docs) :
            /\ \A j \in 1..Len(clean_docs[k]) :
                   clean_docs[k][j] \notin {"\n", "\r"}
            /\ \A p \in {NthOf(KeptMarkers, k)} :
                   clean_docs[k] =
                       ReplaceEntities(WithoutLineBreaks(SegmentAfter(p)))

\* a document returned for a segment that held a carriage return between
\* two of its characters
C17_Witness ==
    /\ pc = "parse"
    /\ Len(clean_docs) = 1
    /\ Len(clean_docs[1]) = 2
    /\ \E p \in MarkerPositions :
           \E j \in 2..(Len(SegmentAfter(p)) - 1) : SegmentAfter(p)[j] = "\r"

(***************************************************************************)
(* SpecInventorList: a file of one document with an <inventors> region of  *)
(* up to MaxInventorBlocks inventor blocks, followed by nothing, by an     *)
(* inventor block outside the region, or by a second region.               *)
(***************************************************************************)
MaxInventorBlocks == 3

InventorBlocks ==
    {InventorElement(<<"L">>, <<"F">>),
     InventorElement(<<"M">>, <<"G">>),
     \* <inventor sequence="1"> ... with a line of white space inside
     <<"<", "inventor", " ", "sequence", "=", "\"", "1", "\"", ">", " ">>
         \o Tag("addressbook")
         \o Tag("last-name") \o <<"P", " ", "Q">> \o EndTag("last-name")
         \o <<" ">> \o Tag("first-name") \o <<"R">> \o EndTag("first-name")
         \o EndTag("addressbook") \o EndTag("inventor")}

AfterInventors ==
    {<<>>,
     InventorElement(<<"N">>, <<"H">>),
     INVENTORS_OPEN \o InventorElement(<<"N">>, <<"H">>) \o INVENTORS_CLOSE}

InitInventorList ==
    \E bs \in SeqsUpTo(InventorBlocks, MaxInventorBlocks),
       after \in AfterInventors :
        InitFile(XML_DECLARATION \o INVENTORS_OPEN \o Flatten(bs)
                     \o INVENTORS_CLOSE \o after \o <<"\n">>)

SpecInventorList == InitInventorList /\ [][NextParse]_vars

\* where the first <inventors> region of doc opens and closes (0: nowhere)
RegionOpen(doc) == StrFind(doc, INVENTORS_OPEN, 1)

RegionClose(doc) ==
    IF RegionOpen(doc) = 0 THEN 0
    ELSE StrFind(doc, INVENTORS_CLOSE, RegionOpen(doc))

\* the positions inside that region at which an <inventor ...> tag opens
BlockPositions(doc) ==
    {p \in (RegionOpen(doc) + 1)..(RegionClose(doc) - 1) :
        HasAt(doc, p, <<"<", "inventor">>) /\ doc[p + 2] # "s"}

\* the text of the first <tag> element of doc from position p on
ElementText(doc, p, tag) ==
    LET a == StrFind(doc, Tag(tag), p)
    IN  Slice(doc, a + 3, StrFind(doc, EndTag(tag), a))

\* "first last" for each block of the region, in the order of the blocks
ExpectedNames(doc) ==
    [k \in 1..Cardinality(BlockPositions(doc)) |->
        LET p == NthOf(BlockPositions(doc), k)
        IN  ElementText(doc, p, "first-name") \o <<" ">>
                \o ElementText(doc, p, "last-name")]

\* C18: a processed document whose first <inventors> region holds k >= 1
\* inventor blocks, each with a last-name and then a first-name element, has
\* for its inventors value "[" + the k strings "first last", in the order of
\* the blocks, joined by "," + "]"; blocks outside that region add nothing.
C18_InventorsInOrder ==
    \A k \in 1..i : \A doc \in {clean_docs[k]} :
        (RegionClose(doc) > 0 /\ BlockPositions(doc) # {}) =>
            \A names \in {ExpectedNames(doc)} :
                inventors[k] =
                    <<"[">>
                        \o Flatten([j \in 1..Len(names) |->
                                IF j = 1 THEN names[j]
                                ELSE <<",">> \o names[j]])
                        \o <<"]">>

\* a processed document with the inventors G M and F L, in that order,
\* inside the region and another inventor block after the region
C18_Witness ==
    /\ i = 1
    /\ inventors[1] = <<"[", "G", " ", "M", ",", "F", " ", "L", "]">>
    /\ StrFind(clean_docs[1], Tag("inventor"), RegionClose(clean_docs[1])) > 0

(***************************************************************************)
(* SpecFirst: a file of one document put together from up to               *)
(* MaxAnchorItems elements of the single-valued fields, some of them       *)
(* without the content their pattern asks for.                             *)
(***************************************************************************)
MaxAnchorItems == 2

\* <publication-reference>content</publication-reference>
PublicationReference(content) ==
    Tag("publication-reference") \o content \o EndTag("publication-reference")

\* <number-of-claims>text</number-of-claims>
NumberOfClaims(text) ==
    Tag("number-of-claims") \o text \o EndTag("number-of-claims")

AnchorItems ==
    {GrantTag(<<"U", "S", "1">>), GrantTag(<<"U", "S", "2">>),
     Tag("us-patent-grant"),
     PublicationReference(KindElement(<<"B", "1">>)),
     PublicationReference(KindElement(<<"S", "1">>)),
     PublicationReference(<<>>),
     TitleElement(<<"T">>), TitleElement(<<"V">>),
     Tag("invention-title") \o <<"W">> \o EndTag("invention-title"),
     NumberOfClaims(<<"3">>), NumberOfClaims(<<"4">>), NumberOfClaims(<<"x">>),
     AbstractElement(<<"A">>), AbstractElement(<<"B">>),
     Tag("abstract") \o <<"C">> \o EndTag("abstract")}

InitFirst ==
    \E items \in SeqsUpTo(AnchorItems, MaxAnchorItems) :
        InitFile(XML_DECLARATION \o Flatten(items) \o <<"\n">>)

SpecFirst == InitFirst /\ [][NextParse]_vars

\* doc up to where the opening tag anchor occurs for the second time (the
\* whole of doc when it occurs less than twice)
UpToSecond(doc, anchor) ==
    LET p1 == StrFind(doc, anchor, 1)
        p2 == IF p1 = 0 THEN 0 ELSE StrFind(doc, anchor, p1 + 1)
    IN  IF p2 = 0 THEN doc ELSE SubSeq(doc, 1, p2 - 1)

\* C19: for grant_id, kind, patent_title, number_of_claims and abstract, the
\* value of a processed document is the value of the document cut off before
\* the second occurrence of the field's anchor element: the first occurrence
\* gives the value and later occurrences do not affect it.
C19_FirstOccurrenceOnly ==
    \A k \in 1..i : \A doc \in {clean_docs[k]} :
        /\ \A d \in {UpToSecond(doc, <<"<", "us-patent-grant">>)} :
               grant_ids[k] = ExtractGrantId(d)
        /\ \A d \in {UpToSecond(doc, Tag("publication-reference"))} :
               kinds[k] = ExtractKind(d)
        /\ \A d \in {UpToSecond(doc, <<"<", "invention-title">>)} :
               patent_titles[k] = ExtractPatentTitle(d)
        /\ \A d \in {UpToSecond(doc, Tag("number-of-claims"))} :
               num_claims[k] = ExtractNumClaims(d)
        /\ \A d \in {UpToSecond(doc, <<"<", "abstract">>)} :
               abstracts[k] = ExtractAbstract(d)
====
